---- MODULE Spec2Model ----
(***************************************************************************)
(* Model of package observability: the ordered line scanner of scanner.go  *)
(* (BufferScanner over bufio.Scanner / bufio.ScanLines / bytes.Reader) and *)
(* the scalar meter of meter.go.  Bytes are one-character strings, a byte  *)
(* slice is a sequence of bytes.  Slice offsets are 0-based as in the      *)
(* source; s[i] of the source is s[i + 1] here.                             *)
(***************************************************************************)
EXTENDS Integers, Sequences, FiniteSets, TLC

VARIABLES
    lineFuncs,  \* bs.lineFuncs: the names of the registrations, in order
    lineBuf,    \* bs.lineBuf, the bufio.Scanner's buffer (len = cap)
    fields,     \* bs.fields: the scratch field list of the last Fields call
    b,          \* the byte buffer handed to Scan, read by bs.lineReader
    ri,         \* bytes.Reader.i: the read offset into b
    start,      \* bufio.Scanner.start
    end,        \* bufio.Scanner.end
    err,        \* bufio.Scanner.err: "nil", "EOF" or "ErrTooLong"
    fi,         \* position of `for _, f := range bs.lineFuncs` (1-based)
    pc,         \* "idle": no Scan yet, "scan": inside Scan, "done": returned
    ret,        \* what the last Scan handed to its caller
    calls,      \* the callback invocations of the current Scan, in order
    outcome,    \* per registration: how its search ended in the current Scan
    reads,      \* number of scanner.Scan() calls in the current Scan
    m,          \* the scalarMeter: [cumulative, v, t, r, f]
    last,       \* the last meter operation with the meter as it was before it
    made,       \* the meter's resetTime at construction; was ResetAt called
    prev,       \* the buffer and the callback invocations of the Scan before
    pure,       \* the last call of Fields or naiveAtoi: [fn, arg, res]
    race,       \* an unsynchronised writer and reader of the meter, step by step
    origin      \* the Origin: RegisterFunction calls and refresh invocations

scanVars  == <<lineFuncs, lineBuf, fields, b, ri, start, end, err, fi, pc, ret,
               calls, outcome, reads, prev, pure>>
meterVars == <<m, last, made, race, origin>>
vars      == <<lineFuncs, lineBuf, fields, b, ri, start, end, err, fi, pc, ret,
               calls, outcome, reads, prev, pure, m, last, made, race, origin>>

(***************************************************************************)
(* Bounds and input sets                                                   *)
(***************************************************************************)
MaxLines == 3   \* lines per input buffer
MaxFuncs == 2   \* registrations per scanner
MaxTime  == 3   \* timestamps are 1..MaxTime; 0 is the zero time.Time
MaxVal   == 3   \* sampled values are 0..MaxVal
MaxRescanLines == 2   \* lines per buffer that is scanned twice
MaxSpan  == 4   \* bytes per argument of Fields
MaxDigits == 3  \* digits per short argument of naiveAtoi

LF  == "\n"
CR  == "\r"
SP  == " "
TAB == "\t"
VT  == "VT"     \* the byte 0x0b
FF  == "\f"
NUL == "NUL"    \* the zero byte of a fresh make([]byte, 0, n)

\* cap(lineBuf) of the buffers handed to NewBufferScanner
LineBufCaps == {4, 8}

\* registration names
Names == {<<"A">>, <<"B">>}

\* physical lines (without their newline) an input buffer is made of
Lines == { <<"A">>,
           <<"A", SP, "1">>,
           <<"B", SP, "2">>,
           <<SP, "B", SP, SP, "2", CR>>,
           <<"A", SP, "1", "2", SP, "1">> }

RECURSIVE SeqsUpTo(_, _)
SeqsUpTo(S, n) ==
    IF n = 0 THEN {<<>>}
    ELSE LET shorter == SeqsUpTo(S, n - 1)
         IN shorter \cup {Append(s, x) : s \in {t \in shorter : Len(t) = n - 1}, x \in S}

RECURSIVE JoinLines(_, _)
\* the lines each followed by LF, the last one only when terminated
JoinLines(ls, terminated) ==
    IF ls = <<>> THEN <<>>
    ELSE IF Len(ls) = 1 THEN (IF terminated THEN Append(ls[1], LF) ELSE ls[1])
    ELSE Append(ls[1], LF) \o JoinLines(Tail(ls), terminated)

Inputs == {JoinLines(ls, term) : ls \in SeqsUpTo(Lines, MaxLines), term \in BOOLEAN}

\* the buffers a scanner is given twice
RescanInputs ==
    {JoinLines(ls, term) : ls \in SeqsUpTo(Lines, MaxRescanLines), term \in BOOLEAN}

Min(x, y) == IF x < y THEN x ELSE y

\* Go's s[lo:hi] on a 0-based slice
Slice(s, lo, hi) == SubSeq(s, lo + 1, hi)

(***************************************************************************)
(* asciiByteFields / Fields                                                 *)
(***************************************************************************)
asciiSpace == {TAB, LF, VT, FF, CR, SP}

\* the byte spans Fields is called on: two bytes that are not whitespace
\* and the six that are
SpanBytes == {"a", "b"} \cup asciiSpace

Spans == SeqsUpTo(SpanBytes, MaxSpan)

\* a plausible slip: `if` for `for`, one space skipped
SkipOneSpace(s, i) ==
    IF i < Len(s) /\ s[i + 1] \in asciiSpace THEN i + 1 ELSE i

RECURSIVE SkipSpaces(_, _)
\* for i < len(s) && asciiSpace[s[i]] != 0 { i++ }
SkipSpaces(s, i) ==
    IF i < Len(s) /\ s[i + 1] \in asciiSpace THEN SkipSpaces(s, i + 1) ELSE i

RECURSIVE FieldsLoop(_, _, _, _)
\* the main loop of asciiByteFields and the append after it
FieldsLoop(s, i, fieldStart, a) ==
    IF i < Len(s)
    THEN IF s[i + 1] \notin asciiSpace
         THEN FieldsLoop(s, i + 1, fieldStart, a)
         ELSE LET j == SkipSpaces(s, i + 1)
              IN FieldsLoop(s, j, j, Append(a, Slice(s, fieldStart, i)))
    ELSE IF fieldStart < Len(s)
         THEN Append(a, Slice(s, fieldStart, Len(s)))
         ELSE a

asciiByteFields(s, a) ==
    LET i == SkipSpaces(s, 0) IN FieldsLoop(s, i, i, a)

\* bs.fields = asciiByteFields(line, bs.fields[0:0])
Fields(line) == asciiByteFields(line, <<>>)

(***************************************************************************)
(* naiveAtoi                                                               *)
(***************************************************************************)
\* the bytes '0' .. '9', in the order of their codes
DigitBytes == <<"0", "1", "2", "3", "4", "5", "6", "7", "8", "9">>

\* the code of a digit byte: '0' is 48
Ord(c) == CHOOSE n \in 48..57 : DigitBytes[n - 47] = c

\* a uint64 is held as LimbCount limbs of LimbBits bits, least significant
\* first
LimbBits  == 16
LimbCount == 4
LimbBase  == 2 ^ LimbBits

\* uint64(0), and zero at other widths
Zero(w) == [i \in 1..w |-> 0]

RECURSIVE Pass(_, _, _, _)
\* rv * k + carry, limb by limb from limb i on; the carry out of the last
\* limb is dropped, as unsigned arithmetic of that width drops it
Pass(rv, k, carry, i) ==
    IF i > Len(rv) THEN rv
    ELSE LET x == rv[i] * k + carry
         IN Pass([rv EXCEPT ![i] = x % LimbBase], k, x \div LimbBase, i + 1)

\* rv *= 10
TimesTen(rv) == Pass(rv, 10, 0, 1)

\* rv += d, for d below 2^8
Plus(rv, d) == Pass(rv, 1, d, 1)

\* a plausible slip: the byte taken for its digit
DigitCode(c) == Ord(c)

\* c - '0', in byte arithmetic
Digit(c) == (Ord(c) - Ord("0") + 256) % 256

\* the body of the range loop: rv *= 10; rv += uint64(c - '0')
AtoiBody(rv, c) == Plus(TimesTen(rv), Digit(c))

\* digit strings around the ends of the uint64 range, longer than MaxDigits
LongDigitStrings ==
    { <<"1", "8", "4", "4", "6", "7", "4", "4", "0", "7", "3", "7",
         "0", "9", "5", "5", "1", "6", "1", "5">>,
      <<"1", "8", "4", "4", "6", "7", "4", "4", "0", "7", "3", "7",
         "0", "9", "5", "5", "1", "6", "1", "4">>,
      <<"1", "8", "4", "4", "6", "7", "4", "4", "0", "7", "3", "7",
         "0", "9", "5", "5", "1", "6", "1", "6">>,
      <<"9", "9", "9", "9", "9", "9", "9", "9", "9", "9", "9", "9",
         "9", "9", "9", "9", "9", "9", "9">>,
      <<"9", "9", "9", "9", "9", "9", "9", "9", "9", "9", "9", "9",
         "9", "9", "9", "9", "9", "9", "9", "9">>,
      <<"0", "1", "8", "4", "4", "6", "7", "4", "4", "0", "7", "3",
         "7", "0", "9", "5", "5", "1", "6", "1", "5">>,
      <<"0", "0", "0", "0", "0", "0", "0", "0", "0", "0", "0", "0",
         "0", "0", "0", "0", "0", "0", "0", "0", "0", "0", "0", "4",
         "2">>,
      <<"2", "8", "4", "4", "6", "7", "4", "4", "0", "7", "3", "7",
         "0", "9", "5", "5", "1", "6", "1", "5">>,
      <<"1", "8", "4", "4", "6", "7", "4", "4", "0", "7", "3", "7",
         "0", "9", "5", "5", "1", "6", "2", "5">>,
      <<"3", "6", "8", "9", "3", "4", "8", "8", "1", "4", "7", "4",
         "1", "9", "1", "0", "3", "2", "3", "2">> }

\* the arguments naiveAtoi is called on
DigitStrings ==
    SeqsUpTo({DigitBytes[n] : n \in 1..Len(DigitBytes)}, MaxDigits)
        \cup LongDigitStrings

(***************************************************************************)
(* bytes.Reader.Read, bufio.ScanLines and bufio.Scanner.Scan, as used by    *)
(* Scan through bs.lineReader.Reset(b), bufio.NewScanner(bs.lineReader)    *)
(* and scanner.Buffer(bs.lineBuf, cap(bs.lineBuf)).  A scanner state is    *)
(* the record [buf, start, end, err, ri].                                  *)
(***************************************************************************)

\* Scanner.setErr: only the first non-EOF error is kept
setErr(s, e) ==
    IF s.err = "nil" \/ s.err = "EOF" THEN [s EXCEPT !.err = e] ELSE s

\* one s.r.Read(s.buf[s.end:len(s.buf)]) of the bytes.Reader over `in`, with
\* the bookkeeping of Scanner.Scan's read loop: (0, io.EOF) at the end of
\* the input, otherwise n = copy(...) bytes and a nil error
ReadMore(s, in) ==
    IF s.ri >= Len(in)
    THEN setErr(s, "EOF")
    ELSE LET n == Min(Len(s.buf) - s.end, Len(in) - s.ri)
         IN [s EXCEPT !.buf = [k \in 1..Len(s.buf) |->
                                  IF k > s.end /\ k <= s.end + n
                                  THEN in[s.ri + (k - s.end)]
                                  ELSE s.buf[k]],
                      !.end = s.end + n,
                      !.ri  = s.ri + n]

\* bufio.dropCR
dropCR(data) ==
    IF Len(data) > 0 /\ data[Len(data)] = CR
    THEN Slice(data, 0, Len(data) - 1)
    ELSE data

\* bytes.IndexByte(data, '\n'), -1 when absent
IndexLF(data) ==
    IF \E k \in 1..Len(data) : data[k] = LF
    THEN (CHOOSE k \in 1..Len(data) :
              data[k] = LF /\ \A j \in 1..(k - 1) : data[j] # LF) - 1
    ELSE -1

\* bufio.ScanLines(data, atEOF): [advance, tokenNil, token]
ScanLines(data, atEOF) ==
    IF atEOF /\ Len(data) = 0
    THEN [advance |-> 0, tokenNil |-> TRUE, token |-> <<>>]
    ELSE IF IndexLF(data) >= 0
    THEN [advance  |-> IndexLF(data) + 1,
          tokenNil |-> FALSE,
          token    |-> dropCR(Slice(data, 0, IndexLF(data)))]
    ELSE IF atEOF
    THEN [advance |-> Len(data), tokenNil |-> FALSE, token |-> dropCR(data)]
    ELSE [advance |-> 0, tokenNil |-> TRUE, token |-> <<>>]

\* Scanner.Scan: "shift data to beginning of buffer if there's lots of empty
\* space or space is needed"
ShiftBuf(s) ==
    IF s.start > 0 /\ (s.end = Len(s.buf) \/ s.start > Len(s.buf) \div 2)
    THEN [s EXCEPT !.buf = [k \in 1..Len(s.buf) |->
                               IF k <= s.end - s.start
                               THEN s.buf[s.start + k]
                               ELSE s.buf[k]],
                   !.end = s.end - s.start,
                   !.start = 0]
    ELSE s

\* Scanner.Scan: the buffer is full and may not grow, because
\* scanner.Buffer(bs.lineBuf, cap(bs.lineBuf)) makes maxTokenSize = len(s.buf)
BufferFull(s) == s.end = Len(s.buf)

RECURSIVE ScannerScan(_, _)
\* one scanner.Scan(): [s: the scanner after it, ok: its result, token:
\* scanner.Bytes(), off: the offset into `in` of the token's first byte]
ScannerScan(s, in) ==
    LET trySplit == s.end > s.start \/ s.err # "nil"
        sp == ScanLines(Slice(s.buf, s.start, s.end), s.err # "nil")
        s1 == IF trySplit THEN [s EXCEPT !.start = s.start + sp.advance] ELSE s
    IN IF trySplit /\ ~sp.tokenNil
       THEN [s |-> s1, ok |-> TRUE, token |-> sp.token,
             off |-> s.ri - (s.end - s.start)]
       ELSE IF s1.err # "nil"
       THEN [s |-> [s1 EXCEPT !.start = 0, !.end = 0], ok |-> FALSE,
             token |-> <<>>, off |-> s.ri]
       ELSE IF BufferFull(ShiftBuf(s1))
       THEN [s |-> setErr(ShiftBuf(s1), "ErrTooLong"), ok |-> FALSE,
             token |-> <<>>, off |-> s.ri]
       ELSE ScannerScan(ReadMore(ShiftBuf(s1), in), in)

(***************************************************************************)
(* BufferScanner                                                           *)
(***************************************************************************)

\* the scanner of the current Scan as a record
Scanner == [buf |-> lineBuf, start |-> start, end |-> end, err |-> err, ri |-> ri]

\* number of the physical line (0-based) that holds offset off of buffer in
LineIndex(in, off) == Cardinality({k \in 1..Min(off, Len(in)) : in[k] = LF})

\* a plausible slip: a line of the name alone is taken for a match
MatchesNameAlone(name, fs) == Len(fs) > 0 /\ name = fs[1]

\* if len(fields) > 1 { if bytes.Equal(f.name, fields[0]) {
Matches(name, fs) == Len(fs) > 1 /\ name = fs[1]

\* f.f(fields[1:]): the invocation, as the callback sees it
Callback(i, fs, in, off) ==
    [reg |-> i, fields |-> Tail(fs), line |-> LineIndex(in, off)]

\* a plausible slip: no `break`, the same lineFunc goes on reading lines
AfterMatchNoBreak(i) == i

\* `break` after the callback: the range loop goes on to the next lineFunc
AfterMatch(i) == i + 1

\* a plausible slip: the lineFunc is tried again when the scanner gives out
AfterMissRetry(i) == i

\* scanner.Scan() returned false: the inner loop ends, next lineFunc
AfterMiss(i) == i + 1

\* the range loop is over when every lineFunc had its turn: Scan returns
PcAfter(i) == IF i > Len(lineFuncs) THEN "done" ELSE "scan"

\* Scan has no result and no branch that panics or reads scanner.Err()
RetAfter(i) == IF i > Len(lineFuncs) THEN "returned" ELSE "none"

\* NewBufferScanner(lineBuf, lineFuncs) with cap(lineBuf) = c
NewBufferScanner(c, lfs) ==
    /\ lineFuncs = lfs
    /\ lineBuf = [k \in 1..c |-> NUL]
    /\ fields = <<>>
    /\ b = <<>>
    /\ ri = 0
    /\ start = 0
    /\ end = 0
    /\ err = "nil"
    /\ fi = 0
    /\ pc = "idle"
    /\ ret = "none"
    /\ calls = <<>>
    /\ outcome = [i \in 1..Len(lfs) |-> "pending"]
    /\ reads = 0
    /\ prev = [scanned |-> FALSE, b |-> <<>>, calls |-> <<>>, outcome |-> <<>>]

\* a plausible slip: the reader keeps the offset the Scan before left it at
ResetKeepsOffset(in) == ri

\* bs.lineReader.Reset(b): the offset the reader starts to read b at
Reset(in) == 0

\* Scan(in), up to the first scanner.Scan(): the reader is reset onto in and
\* a new bufio.Scanner is put over bs.lineBuf.  This is the first Scan of a
\* scanner; the line buffer is as NewBufferScanner received it.
Scan(in) ==
    /\ pc = "idle"
    /\ b' = in
    /\ ri' = Reset(in)
    /\ start' = 0
    /\ end' = 0
    /\ err' = "nil"
    /\ fi' = 1
    /\ pc' = PcAfter(1)
    /\ ret' = RetAfter(1)
    /\ calls' = <<>>
    /\ outcome' = [i \in 1..Len(lineFuncs) |-> "pending"]
    /\ reads' = 0
    /\ UNCHANGED <<lineFuncs, lineBuf, fields, prev, pure, meterVars>>

\* Scan(b) once more on the scanner whose Scan(b) has returned: the reader is
\* reset onto b and a new bufio.Scanner is put over bs.lineBuf, which holds
\* what the Scan before read into it; bs.fields is as that Scan left it.
Rescan ==
    /\ pc = "done"
    /\ ~prev.scanned
    /\ prev' = [scanned |-> TRUE, b |-> b, calls |-> calls, outcome |-> outcome]
    /\ ri' = Reset(b)
    /\ start' = 0
    /\ end' = 0
    /\ err' = "nil"
    /\ fi' = 1
    /\ pc' = PcAfter(1)
    /\ ret' = RetAfter(1)
    /\ calls' = <<>>
    /\ outcome' = [i \in 1..Len(lineFuncs) |-> "pending"]
    /\ reads' = 0
    /\ UNCHANGED <<lineFuncs, lineBuf, fields, b, pure, meterVars>>

\* a plausible slip: the reader and scanner are set up anew for each lineFunc
RewoundSearch(s) == [s EXCEPT !.ri = 0, !.start = 0, !.end = 0, !.err = "nil"]

\* the scanner the next lineFunc's search starts with: the one bufio.Scanner
\* made before the range loop, as the previous search left it
NextSearch(s) == s

\* the scanner fields after one scanner.Scan() that left the scanner as s
ScannerMoves(s) ==
    /\ lineBuf' = s.buf
    /\ start' = s.start
    /\ end' = s.end
    /\ err' = s.err
    /\ ri' = s.ri
    /\ reads' = reads + 1

\* scanner.Scan() is true and the line is the current lineFunc's: callback
LineMatch ==
    /\ pc = "scan"
    /\ LET r == ScannerScan(Scanner, b)
       IN /\ r.ok
          /\ Matches(lineFuncs[fi], Fields(r.token))
          /\ ScannerMoves(NextSearch(r.s))
          /\ fields' = Fields(r.token)
          /\ calls' = Append(calls, Callback(fi, Fields(r.token), b, r.off))
          /\ outcome' = [outcome EXCEPT ![fi] = "matched"]
          /\ fi' = AfterMatch(fi)
          /\ pc' = PcAfter(AfterMatch(fi))
          /\ ret' = RetAfter(AfterMatch(fi))
    /\ UNCHANGED <<lineFuncs, b, prev, pure, meterVars>>

\* scanner.Scan() is true and the line is not the current lineFunc's
LineSkip ==
    /\ pc = "scan"
    /\ LET r == ScannerScan(Scanner, b)
       IN /\ r.ok
          /\ ~Matches(lineFuncs[fi], Fields(r.token))
          /\ ScannerMoves(r.s)
          /\ fields' = Fields(r.token)
    /\ UNCHANGED <<lineFuncs, b, fi, pc, ret, calls, outcome, prev, pure, meterVars>>

\* scanner.Scan() is false: the search for the current lineFunc is over
LineMiss ==
    /\ pc = "scan"
    /\ LET r == ScannerScan(Scanner, b)
       IN /\ ~r.ok
          /\ ScannerMoves(NextSearch(r.s))
          /\ outcome' = [outcome EXCEPT ![fi] =
                            IF r.s.err = "EOF" THEN "exhausted" ELSE "tooLong"]
          /\ fi' = AfterMiss(fi)
          /\ pc' = PcAfter(AfterMiss(fi))
          /\ ret' = RetAfter(AfterMiss(fi))
    /\ UNCHANGED <<lineFuncs, b, fields, calls, prev, pure, meterVars>>

(***************************************************************************)
(* scalarMeter                                                             *)
(***************************************************************************)

\* a plausible slip: the reset time returned for the sample time
ValueSinceReset(mm) == <<mm.r, mm.v>>

\* (m *scalarMeter) Value()
Value(mm) == <<mm.t, mm.v>>

\* a plausible slip: the reset forgets the reset time
ResetAtKeepsResetTime(mm, t) == [mm EXCEPT !.t = t, !.v = 0]

\* (m *scalarMeter) ResetAt(t)
\* a plausible slip: the value survives the reset
ResetAtKeepsValue(mm, t) == [mm EXCEPT !.t = t, !.r = t]

\* (m *scalarMeter) ResetAt(t)
ResetAt(mm, t) == [mm EXCEPT !.t = t, !.r = t, !.v = 0]

\* a plausible slip: the comparison the wrong way round
counterSetOnIncrease(mm, t, v) == IF v > Value(mm)[2] THEN ResetAt(mm, t) ELSE mm

\* a plausible slip: an unchanged value taken for a decrease
counterSetResetsOnEqual(mm, t, v) ==
    IF v <= Value(mm)[2] THEN ResetAt(mm, t) ELSE mm

\* counterSet(m, t, v)
counterSet(mm, t, v) == IF v < Value(mm)[2] THEN ResetAt(mm, t) ELSE mm

\* a plausible slip: gauges checked like counters
gaugeSetChecked(mm, t, v) == counterSet(mm, t, v)

\* gaugeSet(_, _, _)
gaugeSet(mm, t, v) == mm

\* m.f(m, t, v)
setFunc(mm, t, v) ==
    IF mm.f = "counterSet" THEN counterSet(mm, t, v) ELSE gaugeSet(mm, t, v)

\* (m *scalarMeter) SampleAt(t, v)
SampleAt(mm, t, v) == [setFunc(mm, t, v) EXCEPT !.t = t, !.v = v]

\* DefineCounter(md) at time.Now() = now, for a description with the given
\* cumulative field; t and v are Go zero values
DefineCounter(cumulative, now) ==
    [cumulative |-> cumulative, v |-> 0, t |-> 0, r |-> now, f |-> "counterSet"]

\* the gauge constructor "analogous" to DefineCounter
DefineGauge(cumulative, now) ==
    [cumulative |-> cumulative, v |-> 0, t |-> 0, r |-> now, f |-> "gaugeSet"]

Times  == 1..MaxTime
Values == 0..MaxVal

Op(name, t, v, out) == [op |-> name, t |-> t, v |-> v, pre |-> m, out |-> out]

\* a meter fresh from its constructor
Defined(name, mm) ==
    /\ m = mm
    /\ last = [op |-> name, t |-> mm.r, v |-> 0, pre |-> mm, out |-> <<>>]
    /\ made = [r |-> mm.r, reset |-> FALSE]
    /\ race = [wpc |-> "idle", t |-> 0, v |-> 0, old |-> <<>>,
               rpc |-> "idle", rt |-> 0, out |-> <<>>]
    /\ origin = [registered |-> FALSE, refreshed |-> 0]

CallSampleAt(t, v) ==
    /\ m' = SampleAt(m, t, v)
    /\ last' = Op("SampleAt", t, v, <<>>)
    /\ UNCHANGED <<made, race, origin>>
    /\ UNCHANGED scanVars

CallResetAt(t) ==
    /\ m' = ResetAt(m, t)
    /\ last' = Op("ResetAt", t, 0, <<>>)
    /\ made' = [made EXCEPT !.reset = TRUE]
    /\ UNCHANGED <<race, origin>>
    /\ UNCHANGED scanVars

CallValue ==
    /\ m' = m
    /\ last' = Op("Value", 0, 0, Value(m))
    /\ UNCHANGED <<made, race, origin>>
    /\ UNCHANGED scanVars

\* a plausible slip: the functor is called when it is registered
RegisterFunctionCallsF(o) == [o EXCEPT !.registered = TRUE, !.refreshed = @ + 1]

\* (o *Origin) RegisterFunction(f, ms...): the body is empty.  That the call
\* was made, and how often f has been called, is recorded beside the Origin.
RegisterFunction(o) == [o EXCEPT !.registered = TRUE]

\* o.RegisterFunction(f, m)
CallRegisterFunction ==
    /\ origin' = RegisterFunction(origin)
    /\ m' = m
    /\ last' = Op("RegisterFunction", 0, 0, <<>>)
    /\ UNCHANGED <<made, race>>
    /\ UNCHANGED scanVars

(***************************************************************************)
(* SampleAt and Value statement by statement: a writer goroutine in one    *)
(* SampleAt(t, v) and a reader goroutine in one Value() on the same meter. *)
(* race.wpc is the writer's next statement, race.rpc the reader's;         *)
(* race.old is the pair Value() gave when the SampleAt was entered.        *)
(***************************************************************************)

\* a plausible slip: Value() waits while a SampleAt is under way
ValueWaitsForWriter == race.wpc \in {"idle", "done"}

\* Value() takes no lock and waits for nothing
ValueMayRun == TRUE

RaceFrame == UNCHANGED <<last, made, origin, scanVars>>

\* a sample taken before the two goroutines start
FirstSample(t, v) ==
    /\ race.wpc = "idle"
    /\ race.rpc = "idle"
    /\ last.op = "DefineCounter"
    /\ CallSampleAt(t, v)

\* the writer enters SampleAt(t, v)
RaceSampleAt(t, v) ==
    /\ race.wpc = "idle"
    /\ race' = [race EXCEPT !.wpc = "f", !.t = t, !.v = v, !.old = Value(m)]
    /\ UNCHANGED m
    /\ RaceFrame

\* m.f(m, t, v): counterSet compares v with m.Value() and enters ResetAt(t)
\* when it is smaller; gaugeSet returns
RaceSetFunc ==
    /\ race.wpc = "f"
    /\ race' = [race EXCEPT !.wpc =
                   IF m.f = "counterSet" /\ race.v < Value(m)[2]
                   THEN "reset_t" ELSE "set_t"]
    /\ UNCHANGED m
    /\ RaceFrame

\* ResetAt: m.t = t
RaceResetT ==
    /\ race.wpc = "reset_t"
    /\ m' = [m EXCEPT !.t = race.t]
    /\ race' = [race EXCEPT !.wpc = "reset_r"]
    /\ RaceFrame

\* ResetAt: m.r = t
RaceResetR ==
    /\ race.wpc = "reset_r"
    /\ m' = [m EXCEPT !.r = race.t]
    /\ race' = [race EXCEPT !.wpc = "reset_v"]
    /\ RaceFrame

\* ResetAt: m.v = 0
RaceResetV ==
    /\ race.wpc = "reset_v"
    /\ m' = [m EXCEPT !.v = 0]
    /\ race' = [race EXCEPT !.wpc = "set_t"]
    /\ RaceFrame

\* SampleAt: m.t = t
RaceSetT ==
    /\ race.wpc = "set_t"
    /\ m' = [m EXCEPT !.t = race.t]
    /\ race' = [race EXCEPT !.wpc = "set_v"]
    /\ RaceFrame

\* SampleAt: m.v = v, and SampleAt returns
RaceSetV ==
    /\ race.wpc = "set_v"
    /\ m' = [m EXCEPT !.v = race.v]
    /\ race' = [race EXCEPT !.wpc = "done"]
    /\ RaceFrame

\* Value(): the reader loads m.t
RaceReadT ==
    /\ ValueMayRun
    /\ race.rpc = "idle"
    /\ race' = [race EXCEPT !.rpc = "read_v", !.rt = m.t]
    /\ UNCHANGED m
    /\ RaceFrame

\* Value(): the reader loads m.v, and Value() returns the two loads
RaceReadV ==
    /\ ValueMayRun
    /\ race.rpc = "read_v"
    /\ race' = [race EXCEPT !.rpc = "done", !.out = <<race.rt, m.v>>]
    /\ UNCHANGED m
    /\ RaceFrame

(***************************************************************************)
(* Specifications                                                          *)
(***************************************************************************)

\* the meter a fresh DefineCounter(DescribeMeter(.., Cumulative())) returns
InitMeterIdle == Defined("DefineCounter", DefineCounter(TRUE, 1))

\* no call of Fields or naiveAtoi made, none to make
NoCall == pure = [fn |-> "none", arg |-> <<>>, res |-> <<>>]

InitScannerIdle == NewBufferScanner(4, <<>>) /\ NoCall

\* scanner: a scanner over any registration list and line buffer
Init ==
    /\ \E c \in LineBufCaps, lfs \in SeqsUpTo(Names, MaxFuncs) :
           NewBufferScanner(c, lfs)
    /\ NoCall
    /\ InitMeterIdle

Next ==
    \/ \E in \in Inputs : Scan(in)
    \/ LineMatch
    \/ LineSkip
    \/ LineMiss

Spec == Init /\ [][Next]_vars

\* scanner, twice: a scanner that scans a buffer and then the same buffer again
NextRescan ==
    \/ \E in \in RescanInputs : Scan(in)
    \/ LineMatch
    \/ LineSkip
    \/ LineMiss
    \/ Rescan

SpecRescan == Init /\ [][NextRescan]_vars

\* bs.Fields(line) on the line held in pure.arg
CallFields ==
    /\ pure.fn = "none"
    /\ pure.arg \in Spans
    /\ fields' = Fields(pure.arg)
    /\ pure' = [fn |-> "Fields", arg |-> pure.arg, res |-> Fields(pure.arg)]
    /\ UNCHANGED <<lineFuncs, lineBuf, b, ri, start, end, err, fi, pc, ret,
                   calls, outcome, reads, prev, meterVars>>

\* splitter: a scanner about to split any byte span
InitFields ==
    /\ NewBufferScanner(4, <<>>)
    /\ InitMeterIdle
    /\ \E s \in Spans : pure = [fn |-> "none", arg |-> s, res |-> <<>>]

NextFields == CallFields

SpecFields == InitFields /\ [][NextFields]_vars

AtoiFrame ==
    UNCHANGED <<lineFuncs, lineBuf, fields, b, ri, start, end, err, fi, pc,
                ret, calls, outcome, reads, prev, meterVars>>

\* naiveAtoi(b) on the bytes held in pure.arg, up to the loop: rv is 0 and
\* the range is all of b.  pure.wide is rv as a type of LimbCount + 2 limbs
\* would hold it.
CallNaiveAtoi ==
    /\ pure.fn = "none"
    /\ pure.arg \in DigitStrings
    /\ pure' = [fn |-> "range", arg |-> pure.arg, res |-> <<>>,
                todo |-> pure.arg, rv |-> Zero(LimbCount),
                wide |-> Zero(LimbCount + 2)]
    /\ AtoiFrame

\* one iteration of the range loop
AtoiRange ==
    /\ pure.fn = "range"
    /\ pure.todo # <<>>
    /\ pure' = [pure EXCEPT !.todo = Tail(pure.todo),
                            !.rv = AtoiBody(pure.rv, Head(pure.todo)),
                            !.wide = AtoiBody(pure.wide, Head(pure.todo))]
    /\ AtoiFrame

\* the range is through: return rv
AtoiReturn ==
    /\ pure.fn = "range"
    /\ pure.todo = <<>>
    /\ pure' = [pure EXCEPT !.fn = "naiveAtoi", !.res = pure.rv]
    /\ AtoiFrame

\* parser: naiveAtoi about to convert any digit string
InitAtoi ==
    /\ NewBufferScanner(4, <<>>)
    /\ InitMeterIdle
    /\ \E s \in DigitStrings : pure = [fn |-> "none", arg |-> s, res |-> <<>>]

NextAtoi ==
    \/ CallNaiveAtoi
    \/ AtoiRange
    \/ AtoiReturn

SpecAtoi == InitAtoi /\ [][NextAtoi]_vars

\* race: a counter, sampled once or not at all, then written by one
\* goroutine and read by another
NextRace ==
    \/ \E t \in Times, v \in Values : FirstSample(t, v)
    \/ \E t \in Times, v \in Values : RaceSampleAt(t, v)
    \/ RaceSetFunc
    \/ RaceResetT
    \/ RaceResetR
    \/ RaceResetV
    \/ RaceSetT
    \/ RaceSetV
    \/ RaceReadT
    \/ RaceReadV

\* counters: every meter DefineCounter can return
InitCounter ==
    /\ InitScannerIdle
    /\ \E c \in BOOLEAN, now \in Times :
           Defined("DefineCounter", DefineCounter(c, now))

NextMeter ==
    \/ \E t \in Times, v \in Values : CallSampleAt(t, v)
    \/ \E t \in Times : CallResetAt(t)
    \/ CallValue

SpecCounter == InitCounter /\ [][NextMeter]_vars

SpecRace == InitCounter /\ [][NextRace]_vars

\* registration: a counter that is registered with an Origin at any time
NextOrigin ==
    \/ \E t \in Times, v \in Values : CallSampleAt(t, v)
    \/ \E t \in Times : CallResetAt(t)
    \/ CallValue
    \/ CallRegisterFunction

SpecOrigin == InitCounter /\ [][NextOrigin]_vars

\* meters of either discipline
InitMeter ==
    /\ InitScannerIdle
    /\ \E c \in BOOLEAN, now \in Times :
           \/ Defined("DefineCounter", DefineCounter(c, now))
           \/ Defined("DefineGauge", DefineGauge(c, now))

SpecMeter == InitMeter /\ [][NextMeter]_vars

(***************************************************************************)
(* Vocabulary of the statements about Scan                                 *)
(***************************************************************************)

RECURSIVE PhysLines(_)
\* the physical lines of a buffer: the pieces its LF bytes end, and a last
\* piece that no LF ends when it is not empty
PhysLines(in) ==
    IF in = <<>> THEN <<>>
    ELSE IF \A k \in 1..Len(in) : in[k] # LF THEN <<in>>
    ELSE LET n == CHOOSE k \in 1..Len(in) :
                      in[k] = LF /\ \A j \in 1..(k - 1) : in[j] # LF
         IN <<SubSeq(in, 1, n - 1)>> \o PhysLines(SubSeq(in, n + 1, Len(in)))

\* line k (0-based) of the buffer being scanned
LineAt(k) == PhysLines(b)[k + 1]

NumLines == Len(PhysLines(b))

\* line k has at least 2 fields and its first field is name
IsLineFor(k, name) ==
    /\ k + 1 <= NumLines
    /\ Len(Fields(LineAt(k))) > 1
    /\ Fields(LineAt(k))[1] = name

\* some physical line is longer than the line buffer
HasLongLine == \E k \in 0..(NumLines - 1) : Len(LineAt(k)) > Len(lineBuf)

\* the registrations that fired in the current Scan
Fired == {calls[n].reg : n \in 1..Len(calls)}

RECURSIVE Embeds(_, _)
\* lines for registrations i.. exist in registration order from line `from` on
Embeds(i, from) ==
    IF i > Len(lineFuncs) THEN TRUE
    ELSE \E k \in from..(NumLines - 1) :
             IsLineFor(k, lineFuncs[i]) /\ Embeds(i + 1, k + 1)

\* the lines of a registration name
LinesFor(name) == {k \in 0..(NumLines - 1) : IsLineFor(k, name)}

(***************************************************************************)
(* Statements about Scan                                                   *)
(***************************************************************************)

\* C1: in a Scan the callbacks are invoked in registration order, each
\* registration at most once, and the lines they are invoked on have strictly
\* increasing positions in the input.
C1_CallsInOrder ==
    \A i, j \in 1..Len(calls) :
        i < j => /\ calls[i].reg < calls[j].reg
                 /\ calls[i].line < calls[j].line

\* two registrations fired in one Scan, with a skipped line between theirs
C1_Witness ==
    /\ pc = "done"
    /\ Len(calls) = 2
    /\ calls[2].line > calls[1].line + 1

\* C2: a registration that fires does so on the first line, after the line
\* of the previous invocation (from the start for the first), that has at
\* least 2 fields and its name as first field, and its callback receives
\* exactly the fields 1.. of that line.
C2_FiresOnFirstLineWithItsFields ==
    \A n \in 1..Len(calls) :
        LET c == calls[n]
            from == IF n = 1 THEN 0 ELSE calls[n - 1].line + 1
        IN /\ IsLineFor(c.line, lineFuncs[c.reg])
           /\ \A k \in from..(c.line - 1) : ~IsLineFor(k, lineFuncs[c.reg])
           /\ c.fields = Tail(Fields(LineAt(c.line)))

\* C3: when the input is exhausted before registration i matched, neither i
\* nor a later registration is invoked in that Scan, the registrations that
\* matched before keep their invocation, and Scan returns normally.
C3_ExhaustedInputEndsScan ==
    \A i \in 1..Len(lineFuncs) :
        outcome[i] = "exhausted" =>
            /\ \A j \in i..Len(lineFuncs) : j \notin Fired
            /\ \A j \in 1..(i - 1) : outcome[j] = "matched" <=> j \in Fired
            /\ pc = "done" => ret = "returned"

\* the first registration matched, the second ran out of input (P5)
C3_Witness ==
    /\ pc = "done"
    /\ Len(lineFuncs) = 2
    /\ outcome[1] = "matched"
    /\ outcome[2] = "exhausted"
    /\ Len(calls) = 1

\* C4: a Scan of a buffer with a physical line longer than the line buffer,
\* once the scanner has come upon that line (bufio.ErrTooLong), hands an
\* explicit failure to its caller, and no callback of it is invoked
\* with fields cut out of a truncated piece of a line.
C4_LongLineIsReported ==
    (HasLongLine /\ err = "ErrTooLong") =>
        /\ pc = "done" => ret = "failure"
        /\ \A n \in 1..Len(calls) :
               calls[n].fields = Tail(Fields(LineAt(calls[n].line)))

\* C6: when the input holds, in registration order, a line for every
\* registration, every registration fires whatever other lines are in
\* between, and a callback is only ever invoked on a line of its own name.
C6_UnregisteredLinesTolerated ==
    /\ (pc = "done" /\ Embeds(1, 0)) => Fired = 1..Len(lineFuncs)
    /\ \A n \in 1..Len(calls) : IsLineFor(calls[n].line, lineFuncs[calls[n].reg])

\* C7: with two registrations of distinct names whose single lines appear in
\* the input in the reverse order, exactly the first registration fires, on
\* its own line.
C7_ReversedOrderFiresFirstOnly ==
    (/\ pc = "done"
     /\ Len(lineFuncs) = 2
     /\ lineFuncs[1] # lineFuncs[2]
     /\ \E k1, k2 \in 0..(NumLines - 1) :
            /\ k2 < k1
            /\ LinesFor(lineFuncs[1]) = {k1}
            /\ LinesFor(lineFuncs[2]) = {k2})
    => /\ Len(calls) = 1
       /\ calls[1].reg = 1
       /\ LinesFor(lineFuncs[1]) = {calls[1].line}

(***************************************************************************)
(* Statements about the meter                                              *)
(***************************************************************************)

\* the last operation was SampleAt(last.t, last.v) on a meter of discipline f
Sampled(f) == last.op = "SampleAt" /\ last.pre.f = f

\* C5 as stated: on a counter, SampleAt(t, v) with v below the current value
\* leaves resetTime = t and value = 0.
C5_DecreaseLeavesZero ==
    (Sampled("counterSet") /\ last.v < last.pre.v) =>
        /\ m.r = last.t
        /\ m.v = 0

\* C5 as the code has it: on a counter, SampleAt(t, v) with v below the
\* current value leaves resetTime = t, sampleTime = t and value = v.
C5_DecreaseResetsAndKeepsSample ==
    (Sampled("counterSet") /\ last.v < last.pre.v) =>
        /\ m.r = last.t
        /\ m.t = last.t
        /\ m.v = last.v

\* a counter at 2 or more sampled with a smaller non-zero value at a new time
C5_Witness ==
    /\ Sampled("counterSet")
    /\ last.v < last.pre.v
    /\ last.v > 0
    /\ last.pre.r # last.t

\* C8: the cumulative flag of the description selects the discipline: a
\* meter of a cumulative description is checked for a decrease, a meter of a
\* non-cumulative one never has its resetTime changed by SampleAt.
C8_FlagSelectsDiscipline ==
    /\ (m.cumulative /\ last.op = "SampleAt" /\ last.v < last.pre.v)
           => m.r = last.t
    /\ (~m.cumulative /\ last.op = "SampleAt") => m.r = last.pre.r

\* C9: on a gauge, SampleAt(t, v) sets value = v and sampleTime = t and
\* leaves resetTime alone, smaller v included; as long as only SampleAt (and
\* Value) is called, resetTime is the one of construction.
C9_GaugePassthrough ==
    /\ Sampled("gaugeSet") =>
           /\ m.v = last.v
           /\ m.t = last.t
           /\ m.r = last.pre.r
    /\ (m.f = "gaugeSet" /\ ~made.reset) => m.r = made.r

\* a gauge sampled with a smaller value at a time other than its resetTime
C9_Witness ==
    /\ Sampled("gaugeSet")
    /\ last.v < last.pre.v
    /\ last.t # last.pre.r
    /\ ~made.reset

\* C10: on a counter, an operation with timestamp t that leaves value
\* smaller than it was also sets resetTime to t.
C10_DecreaseIsAReset ==
    (/\ m.f = "counterSet"
     /\ last.op \in {"SampleAt", "ResetAt"}
     /\ m.v < last.pre.v)
    => m.r = last.t

\* a sample made value smaller, at a time other than the old resetTime
C10_Witness ==
    /\ Sampled("counterSet")
    /\ m.v < last.pre.v
    /\ m.v > 0
    /\ last.pre.r # last.t


\* C11: ResetAt(t), from any meter state and for either discipline, leaves
\* resetTime = t, sampleTime = t and value = 0, and the Value() that follows
\* returns (t, 0).
C11_ResetAtForcesAll ==
    last.op = "ResetAt" =>
        /\ m.r = last.t
        /\ m.t = last.t
        /\ m.v = 0
        /\ Value(m) = <<last.t, 0>>
        /\ m.f = last.pre.f

\* a gauge holding a value, reset at a time that is not its reset time
C11_Witness ==
    /\ last.op = "ResetAt"
    /\ last.pre.f = "gaugeSet"
    /\ last.pre.v > 0
    /\ last.pre.r # last.t
    /\ last.pre.t # last.t

\* C12: Value() returns (sampleTime, value) and changes no field of the
\* meter, so repeated calls return the same pair and the meter is in the
\* state the updates before the call left it in.
C12_ValueReadsOnly ==
    last.op = "Value" =>
        /\ last.out = <<last.pre.t, last.pre.v>>
        /\ m = last.pre
        /\ Value(m) = last.out

\* Value() on a sampled meter whose sample time is not its reset time
C12_Witness ==
    /\ last.op = "Value"
    /\ m.v > 0
    /\ m.t # m.r
    /\ m.t > 0

\* C17: on a counter, SampleAt(t, v) with v at or above the current value
\* sets value = v and sampleTime = t and leaves resetTime unchanged.
C17_NoDecreaseKeepsResetTime ==
    (Sampled("counterSet") /\ last.v >= last.pre.v) =>
        /\ m.v = last.v
        /\ m.t = last.t
        /\ m.r = last.pre.r

\* a counter sampled with the value it holds, at a time that is not its
\* reset time
C17_Witness ==
    /\ Sampled("counterSet")
    /\ last.v = last.pre.v
    /\ last.v > 0
    /\ last.pre.r # last.t

\* the first sample of a freshly defined counter, with value 0
C17_WitnessFirstSample ==
    /\ Sampled("counterSet")
    /\ last.pre = DefineCounter(last.pre.cumulative, made.r)
    /\ last.v = 0
    /\ last.pre.r # last.t


\* C16: a line with fewer than 2 fields never matches, even when its only
\* field is the current registration's name: every callback invocation is on
\* a line of 2 or more fields and receives a non-empty field list, and the
\* step that reads a line of fewer than 2 fields invokes nothing and leaves
\* the search with the same registration.
C16_ShortLinesNeverMatch ==
    /\ [](\A n \in 1..Len(calls) :
             /\ Len(calls[n].fields) >= 1
             /\ Len(Fields(LineAt(calls[n].line))) >= 2)
    /\ [][(/\ pc = "scan"
           /\ ScannerScan(Scanner, b).ok
           /\ Len(Fields(ScannerScan(Scanner, b).token)) < 2)
              => (fi' = fi /\ pc' = "scan" /\ calls' = calls)]_vars

\* a registration fired on a line that follows a line made of its name alone,
\* which its search read
C16_Witness ==
    /\ pc = "done"
    /\ \E n \in 1..Len(calls) :
           \E k \in 0..(calls[n].line - 1) :
               /\ Fields(LineAt(k)) = <<lineFuncs[calls[n].reg]>>
               /\ n > 1 => calls[n - 1].line < k


\* the offset in b of the first byte no token has covered yet: what the
\* reader has handed out, less what the scanner still holds
Consumed == ri - (end - start)

\* C18: Scan is a single forward pass that terminates: it makes at most
\* (number of lines + number of registrations) read attempts, every step of
\* it is one read attempt for a registration of the list, it has returned
\* when the list is through, the cursor never moves back, and every line
\* handed out starts after the one before.
C18_SingleForwardPass ==
    /\ [](reads <= NumLines + Len(lineFuncs))
    /\ [](pc = "scan" => fi \in 1..Len(lineFuncs))
    /\ [](pc = "done" => ret = "returned")
    /\ [][pc = "scan" =>
             /\ reads' = reads + 1
             /\ Consumed' >= Consumed
             /\ ScannerScan(Scanner, b).ok => Consumed' > Consumed]_vars

\* a Scan that returned after reading every line of a 3-line buffer for 2
\* registrations, the second of which ran out of input
C18_Witness ==
    /\ pc = "done"
    /\ ret = "returned"
    /\ NumLines = MaxLines
    /\ Len(lineFuncs) = MaxFuncs
    /\ reads = NumLines + 1
    /\ Len(calls) = 1
    /\ Consumed = Len(b)


\* C13: a Scan carries no matching state over to the next: the Scan of the
\* same buffer that follows starts at the first registration, at offset 0 of
\* the buffer, with a scanner that holds nothing, and once it has returned
\* it has made the invocations of the Scan before: same registrations, same
\* fields, same lines, same order.
C13_RescanRepeats ==
    /\ (prev.scanned /\ pc = "scan" /\ reads = 0) =>
           /\ fi = 1
           /\ ri = 0
           /\ start = 0 /\ end = 0
           /\ err = "nil"
           /\ calls = <<>>
    /\ (prev.scanned /\ pc = "done") =>
           /\ b = prev.b
           /\ calls = prev.calls
           /\ outcome = prev.outcome

\* the second Scan has returned with an invocation where the first ended on
\* a line too long after one invocation
C13_Witness ==
    /\ prev.scanned
    /\ pc = "done"
    /\ Len(prev.calls) = 1
    /\ Len(lineFuncs) = 2
    /\ prev.outcome[2] = "tooLong"

\* the second Scan has returned where the first ran out of input in its
\* first search and where all registrations fired
C13_WitnessExhausted ==
    /\ prev.scanned
    /\ pc = "done"
    /\ NumLines = 2
    /\ Len(lineFuncs) = 2
    /\ prev.outcome[1] = "exhausted"

C13_WitnessAllMatched ==
    /\ prev.scanned
    /\ pc = "done"
    /\ Len(lineFuncs) = 2
    /\ \A i \in 1..2 : prev.outcome[i] = "matched"


(***************************************************************************)
(* Statements about Fields and naiveAtoi                                   *)
(***************************************************************************)

\* the positions of s where a maximal run of non-whitespace bytes starts
RunStarts(s) ==
    {k \in 1..Len(s) :
        s[k] \notin asciiSpace /\ (k = 1 \/ s[k - 1] \in asciiSpace)}

\* the position where the maximal run that holds position k ends
RunEnd(s, k) ==
    CHOOSE j \in k..Len(s) :
        /\ \A n \in k..j : s[n] \notin asciiSpace
        /\ (j = Len(s) \/ s[j + 1] \in asciiSpace)

\* the maximal runs of non-whitespace bytes of s, left to right
MaximalRuns(s) ==
    [i \in 1..Cardinality(RunStarts(s)) |->
        LET k == CHOOSE x \in RunStarts(s) :
                     Cardinality({y \in RunStarts(s) : y < x}) = i - 1
        IN SubSeq(s, k, RunEnd(s, k))]

RECURSIVE JoinSP(_)
\* the fields with one space between neighbours
JoinSP(fs) ==
    IF fs = <<>> THEN <<>>
    ELSE IF Len(fs) = 1 THEN fs[1]
    ELSE Append(fs[1], SP) \o JoinSP(Tail(fs))

\* C14: Fields returns exactly the maximal runs of non-whitespace bytes of
\* its argument, left to right: no field is empty or holds a whitespace
\* byte, an empty or all-whitespace argument gives no field, and the fields
\* joined by single spaces split into the same fields.
C14_FieldsAreMaximalRuns ==
    pure.fn = "Fields" =>
        /\ pure.res = MaximalRuns(pure.arg)
        /\ fields = pure.res
        /\ \A n \in 1..Len(pure.res) :
               /\ pure.res[n] # <<>>
               /\ \A k \in 1..Len(pure.res[n]) : pure.res[n][k] \notin asciiSpace
        /\ (\A k \in 1..Len(pure.arg) : pure.arg[k] \in asciiSpace)
               => pure.res = <<>>
        /\ Fields(JoinSP(pure.res)) = pure.res

\* Fields was called on a span of two fields with two different whitespace
\* bytes between them
C14_Witness ==
    /\ pure.fn = "Fields"
    /\ Len(pure.arg) = 4
    /\ Len(pure.res) = 2
    /\ pure.arg[2] \in asciiSpace
    /\ pure.arg[3] \in asciiSpace
    /\ pure.arg[2] # pure.arg[3]


RECURSIVE StripZeros(_)
\* the digit string without its leading zeros
StripZeros(ds) ==
    IF ds # <<>> /\ Head(ds) = "0" THEN StripZeros(Tail(ds)) ELSE ds

\* 2^64 - 1 in decimal
MaxUint64 == <<"1", "8", "4", "4", "6", "7", "4", "4", "0", "7", "3", "7",
               "0", "9", "5", "5", "1", "6", "1", "5">>

\* x <= y for digit strings of one length, digit by digit from the left
DigitsLE(x, y) ==
    \/ x = y
    \/ \E k \in 1..Len(x) :
           /\ Ord(x[k]) < Ord(y[k])
           /\ \A j \in 1..(k - 1) : x[j] = y[j]

\* the decimal value of ds lies in [0, 2^64 - 1]: what a validating parser
\* accepts without a range error
InRange(ds) ==
    LET c == StripZeros(ds)
    IN \/ Len(c) < Len(MaxUint64)
       \/ Len(c) = Len(MaxUint64) /\ DigitsLE(c, MaxUint64)

RECURSIVE DivTen(_, _, _)
\* limbs divided by 10, from limb i down: [q |-> quotient, r |-> remainder]
DivTen(limbs, i, r) ==
    IF i = 0 THEN [q |-> limbs, r |-> r]
    ELSE LET x == r * LimbBase + limbs[i]
         IN DivTen([limbs EXCEPT ![i] = x \div 10], i - 1, x % 10)

RECURSIVE DecimalOf(_)
\* the decimal digits of a number held in limbs, none for zero
DecimalOf(limbs) ==
    IF limbs = Zero(Len(limbs)) THEN <<>>
    ELSE LET d == DivTen(limbs, Len(limbs), 0)
         IN Append(DecimalOf(d.q), DigitBytes[d.r + 1])

\* C15: for every digit string whose value lies in [0, 2^64 - 1], the empty
\* string (value 0) and strings with leading zeros included, naiveAtoi
\* returns that value, and computing in a wider unsigned type gives the same
\* number: no step of the loop wraps.
C15_AtoiExactInRange ==
    (pure.fn = "naiveAtoi" /\ InRange(pure.arg)) =>
        /\ DecimalOf(pure.res) = StripZeros(pure.arg)
        /\ pure.wide = pure.res \o <<0, 0>>

\* naiveAtoi was called on 2^64 - 1 written with a leading zero
C15_Witness ==
    /\ pure.fn = "naiveAtoi"
    /\ pure.arg = <<"0">> \o MaxUint64
    /\ pure.res = [i \in 1..LimbCount |-> LimbBase - 1]

\* naiveAtoi was called on a string out of range: the result has wrapped
C15_WitnessWrapped ==
    /\ pure.fn = "naiveAtoi"
    /\ ~InRange(pure.arg)
    /\ DecimalOf(pure.res) # StripZeros(pure.arg)
    /\ pure.res = Zero(LimbCount)


(***************************************************************************)
(* Statements about unsynchronised use and registration                    *)
(***************************************************************************)

\* the writer is inside SampleAt, between two of its statements
WriterUnderWay == race.wpc \notin {"idle", "done"}

\* C19: the meter synchronises nothing: whatever statement of SampleAt the
\* writer is at, a reader that has not read yet can load the sample time
\* and one that has loaded it can load the value, and the pair Value()
\* returns is made of a sample time and a value the fields held at some
\* statement of the SampleAt, not necessarily at the same one.
C19_NoSynchronization ==
    /\ (WriterUnderWay /\ race.rpc = "idle") => ENABLED RaceReadT
    /\ (WriterUnderWay /\ race.rpc = "read_v") => ENABLED RaceReadV
    /\ (race.rpc = "done" /\ race.wpc # "idle") =>
           /\ race.out[1] \in {race.old[1], race.t}
           /\ race.out[2] \in {race.old[2], 0, race.v}

\* Value() returned the new sample time with the old value: the pair is
\* neither the one before the SampleAt nor the one after it
C19_Witness ==
    /\ race.rpc = "done"
    /\ race.wpc = "done"
    /\ race.out = <<race.t, race.old[2]>>
    /\ race.out # race.old
    /\ race.out # <<race.t, race.v>>
    /\ Value(m) = <<race.t, race.v>>

\* Value() returned value 0 from the middle of a counter reset
C19_WitnessMidReset ==
    /\ race.rpc = "done"
    /\ race.wpc = "done"
    /\ race.out[2] = 0
    /\ race.old[2] > 0
    /\ race.v > 0


\* C20: RegisterFunction only declares: the functor is never invoked, the
\* meter is after the call what it was before, and on a registered meter
\* SampleAt and ResetAt by any caller stay possible and do what they do on
\* an unregistered one.
C20_RegisterOnlyDeclares ==
    /\ origin.refreshed = 0
    /\ last.op = "RegisterFunction" => (origin.registered /\ m = last.pre)
    /\ origin.registered =>
           /\ ENABLED (\E t \in Times, v \in Values : CallSampleAt(t, v))
           /\ ENABLED (\E t \in Times : CallResetAt(t))
           /\ last.op = "SampleAt" => m = SampleAt(last.pre, last.t, last.v)
           /\ last.op = "ResetAt" => m = ResetAt(last.pre, last.t)

\* a registered meter that holds a value was sampled with another value
C20_Witness ==
    /\ origin.registered
    /\ last.op = "SampleAt"
    /\ last.pre.v > 0
    /\ m.v # last.pre.v

\* a meter that holds a value was registered
C20_WitnessRegistered ==
    /\ last.op = "RegisterFunction"
    /\ m.v > 0
    /\ m.t # m.r

====
